---- MODULE Spec2Model ----
(***************************************************************************)
(* PetNet: ciclo de vida de las solicitudes de adopcion y disponibilidad   *)
(* de las publicaciones (be-petnet/controllers).                           *)
(*                                                                         *)
(* The store is the three Prisma tables Publicacion, Mascota, Solicitud.   *)
(* Every HTTP handler is an async function: the code between two `await`s  *)
(* runs without interruption, and each awaited Prisma call is one atomic   *)
(* statement of the database.  A handler is therefore modelled as one      *)
(* action per awaited statement (the statement together with the           *)
(* synchronous code that follows it up to the next await), and several     *)
(* handlers may be in flight at once (Procs).                              *)
(***************************************************************************)
EXTENDS Integers, Sequences, FiniteSets, TLC

\* ------------------------------------------------------------------ bounds
MaxPub == 1          \* publications ever created (AUTOINCREMENT ids 1..MaxPub)
MaxSol == 2          \* requests ever created (AUTOINCREMENT ids 1..MaxSol)
NumUsuarios == 3     \* registered users (ids 1..NumUsuarios)

Usuarios == 1..NumUsuarios
Procs == {"h1", "h2"}      \* handlers that may be in flight concurrently
Fotos == {"foto1", "foto2"}
Tipos == {"Perro", "Gato"}   \* two of the species the validators accept
\* Users are interchangeable, so the users who publish are taken to be the
\* first MaxPub ones; every user may call every other operation.
Publicadores == 1..MaxPub
\* What the clients send. Sequential runs draw every payload and every call.
\* Concurrent runs draw one photo and one species, and only the calls that
\* pass their checks: a call that fails them is a single read of the store
\* that changes nothing, so it cannot interleave with another call.
EntradasSec == [fotos |-> Fotos, tipos |-> Tipos, rechazos |-> TRUE, maxPub |-> MaxPub,
                publicadores |-> Publicadores]
EntradasConc == [fotos |-> {"foto1"}, tipos |-> {"Perro"}, rechazos |-> FALSE,
                 maxPub |-> MaxPub, publicadores |-> Publicadores]

\* ------------------------------------------------------------- state
VARIABLES
  publicacion,      \* table Publicacion: id -> [foto, estado, usuarioId]
  mascota,          \* table Mascota: id -> [tipo, publicacionId]
  solicitud,        \* table Solicitud: id -> [estado, usuarioId, publicacionId]
  seqPublicacion,   \* sqlite_sequence of Publicacion (last id handed out)
  seqMascota,       \* sqlite_sequence of Mascota
  seqSolicitud,     \* sqlite_sequence of Solicitud
  pc,               \* per handler: the await it is suspended at, or "idle"
  local,            \* per handler: the local constants of the running call
  res,              \* the response sent by the last step (NoRes: it sent none)
  correo            \* the notification dispatched by the last step (NoCorreo: none)

vars == <<publicacion, mascota, solicitud, seqPublicacion, seqMascota,
          seqSolicitud, pc, local, res, correo>>
db == <<publicacion, mascota, solicitud, seqPublicacion, seqMascota, seqSolicitud>>

\* ------------------------------------------------------ values
estadosPermitidos == {"Aprobada", "Rechazada", "Pendiente"}
EstadosEntrada == estadosPermitidos \cup {"Cancelada"}   \* the last one is not permitted
EstadosEdicion == {"disponible", "adoptado"}

NoLocal == [userId |-> 0, id |-> 0, pubId |-> 0, nuevoEstado |-> "-",
            to |-> 0, foto |-> "-", estado |-> "-", tipo |-> "-", mascotaId |-> 0]
\* what a listing puts in its response: which listing it is, the subject and
\* the species filter of the call, and the rows it returns
NoData == [de |-> "-", userId |-> 0, tipo |-> "-", filas |-> {}]
NoRes == [status |-> 0, message |-> "-", error |-> "-", data |-> NoData]
NoCorreo == [to |-> 0, estado |-> "-"]
Res(status, message) == [status |-> status, message |-> message, error |-> "-", data |-> NoData]
\* the text a 500 of actualizarEstadoSolicitud forwards in its field error: its
\* own for the id check, else error.message of what was thrown, a text of the
\* library that threw, which the handler passes on unread
ErrorId == "ID de solicitud inválido"
ErrorPrisma == "error.message (Prisma)"
ErrorCorreo == "error.message (sendMail)"

\* ------------------------------------------------------ parseInt
\* Route parameters and body ids arrive as text; the handlers convert them
\* with parseInt, which reads an optional sign and the longest prefix of
\* decimal digits and yields NaN when there is no digit.
Digitos == <<"0", "1", "2", "3", "4", "5", "6", "7", "8", "9">>
EsDigito(c) == \E i \in 1..Len(Digitos) : Digitos[i] = c
ValorDigito(c) == (CHOOSE i \in 1..Len(Digitos) : Digitos[i] = c) - 1

RECURSIVE LeerDigitos(_, _)
LeerDigitos(s, acc) ==
  IF s = <<>> \/ ~EsDigito(Head(s)) THEN acc
  ELSE LeerDigitos(Tail(s), 10 * acc + ValorDigito(Head(s)))

parseInt(s) ==
  LET neg == s # <<>> /\ Head(s) = "-"
      cuerpo == IF neg THEN Tail(s) ELSE s
  IN IF cuerpo = <<>> \/ ~EsDigito(Head(cuerpo))
       THEN [nan |-> TRUE, val |-> 0]
       ELSE [nan |-> FALSE,
             val |-> IF neg THEN 0 - LeerDigitos(cuerpo, 0) ELSE LeerDigitos(cuerpo, 0)]

\* the texts a client sends as an id: the ids that were or will be handed
\* out and a non-numeric text; a body field may also be missing (empty), or be
\* zero, a negative number, or an id followed by a letter
TextoDe(n) == <<Digitos[n + 1]>>
IdsRuta(max) == {TextoDe(n) : n \in 1..max} \cup {<<"a">>}
IdsCuerpo(max) == IdsRuta(max) \cup {<<>>, <<"0">>, <<"-", "1">>, <<"1", "a">>}

\* ------------------------------------------------------ Init
Init ==
  /\ publicacion = <<>>
  /\ mascota = <<>>
  /\ solicitud = <<>>
  /\ seqPublicacion = 0
  /\ seqMascota = 0
  /\ seqSolicitud = 0
  /\ pc = [p \in Procs |-> "idle"]
  /\ local = [p \in Procs |-> NoLocal]
  /\ res = NoRes
  /\ correo = NoCorreo

\* ------------------------------------------------------ helpers
Quitar(tabla, ids) == [i \in (DOMAIN tabla) \ ids |-> tabla[i]]
\* an insert that overwrites every row of the table
Poner_sobreescribe(tabla, id, fila) == [i \in (DOMAIN tabla) \cup {id} |-> fila]
\* create({data}): the table with the new row
Poner(tabla, id, fila) == [i \in (DOMAIN tabla) \cup {id} |-> IF i = id THEN fila ELSE tabla[i]]

\* res.status(status).json({message}) and return: the call is over
Responder(p, r) ==
  /\ res' = r
  /\ pc' = [pc EXCEPT ![p] = "idle"]
  /\ local' = [local EXCEPT ![p] = NoLocal]

\* the handler suspends at its next await
Seguir(p, donde, loc) ==
  /\ pc' = [pc EXCEPT ![p] = donde]
  /\ local' = [local EXCEPT ![p] = loc]
  /\ res' = NoRes

\* ------------------------------------------------------ queries
\* publicacion.Mascota of an include: the Mascota rows of a publication
MascotasDe(pubId) == {m \in DOMAIN mascota : mascota[m].publicacionId = pubId}
\* the requests of a publication
SolicitudesDe(pubId) == {s \in DOMAIN solicitud : solicitud[s].publicacionId = pubId}
\* solicitud.findUnique({where: {usuarioId_publicacionId}})
solicitudExistente(userId, pubId) ==
  {s \in DOMAIN solicitud : solicitud[s].usuarioId = userId /\ solicitud[s].publicacionId = pubId}

\* the catch block of each handler answers 500 with its own message
Mensaje500(donde) ==
  CASE donde \in {"createRequest_findSolicitud", "createRequest_create"} ->
         "No se pudo enviar la solicitud, intente nuevamente"
    [] donde = "deleteRequest_delete" ->
         "No se pudo cancelar la solicitud, intente nuevamente"
    [] donde = "updatePublication_transaction" ->
         "No se pudo editar la publicación, intente nuevamente"
    [] donde = "deletePublication_delete" ->
         "Hubo un problema al eliminar la publicación, intenta nuevamente"
    [] OTHER -> "Error interno del servidor"

\* res.status(500).json({message, error}) of a catch block: only the one of
\* actualizarEstadoSolicitud forwards error.message (createRequest does so in
\* development only)
Catch(donde, causa) ==
  [status |-> 500, message |-> Mensaje500(donde),
   error |-> IF Mensaje500(donde) = "Error interno del servidor" THEN causa ELSE "-",
   data |-> NoData]

\* ------------------------------------------------------ createPublication
\* express-validator chain of createPublicationValidations
createPublicationValidations(foto, tipo) == foto \in Fotos /\ tipo \in Tipos

\* the two creates outside a transaction: a failure of the second leaves the
\* publication
createPublication_sinTransaccion(p, E) ==
  /\ pc[p] = "idle"
  /\ correo' = NoCorreo
  /\ \E userId \in E.publicadores, foto \in E.fotos \cup {"-"}, tipo \in E.tipos \cup {"Pez"} :
       IF ~createPublicationValidations(foto, tipo)
         THEN /\ E.rechazos
              /\ Responder(p, Res(400, "errores"))
              /\ UNCHANGED db
         ELSE /\ seqPublicacion < E.maxPub
              /\ publicacion' = Poner(publicacion, seqPublicacion + 1,
                                      [foto |-> foto, estado |-> "disponible",
                                       usuarioId |-> userId])
              /\ seqPublicacion' = seqPublicacion + 1
              /\ UNCHANGED <<solicitud, seqSolicitud>>
              /\ \/ /\ mascota' = Poner(mascota, seqMascota + 1,
                                        [tipo |-> tipo, publicacionId |-> seqPublicacion + 1])
                    /\ seqMascota' = seqMascota + 1
                    /\ Responder(p, Res(201, "La publicación se creó correctamente"))
                 \/ /\ E.rechazos
                    /\ UNCHANGED <<mascota, seqMascota>>
                    /\ Responder(p, Res(500, "No se pudo crear la publicación, intente nuevamente"))

\* POST /publications: the whole handler; its only await is the transaction
\* that creates the Publicacion and its Mascota, which commits or rolls back.
createPublication(p, E) ==
  /\ pc[p] = "idle"
  /\ correo' = NoCorreo
  /\ \E userId \in E.publicadores, foto \in E.fotos \cup {"-"}, tipo \in E.tipos \cup {"Pez"} :
       IF ~createPublicationValidations(foto, tipo)
         THEN /\ E.rechazos
              /\ Responder(p, Res(400, "errores"))
              /\ UNCHANGED db
         ELSE \/ /\ seqPublicacion < E.maxPub
                 /\ publicacion' = Poner(publicacion, seqPublicacion + 1,
                                         [foto |-> foto, estado |-> "disponible",
                                          usuarioId |-> userId])
                 /\ mascota' = Poner(mascota, seqMascota + 1,
                                     [tipo |-> tipo, publicacionId |-> seqPublicacion + 1])
                 /\ seqPublicacion' = seqPublicacion + 1
                 /\ seqMascota' = seqMascota + 1
                 /\ UNCHANGED <<solicitud, seqSolicitud>>
                 /\ Responder(p, Res(201, "La publicación se creó correctamente"))
              \/ \* the transaction throws: rollback, catch
                 /\ E.rechazos
                 /\ Responder(p, Res(500, "No se pudo crear la publicación, intente nuevamente"))
                 /\ UNCHANGED db

\* ------------------------------------------------------ createRequest
\* the checks of POST /requests without the one of lines 46-53
createRequest_validar_sinDisponible(userId, publicacionId, mensaje) ==
  LET pubId == parseInt(publicacionId) IN
  IF publicacionId = <<>> \/ pubId.nan \/ ~mensaje
    THEN Res(400, "Faltan datos obligatorios (publicacionId y mensaje son requeridos)")
  ELSE IF pubId.val \notin DOMAIN publicacion
    THEN Res(404, "Publicación no encontrada")
  ELSE IF publicacion[pubId.val].usuarioId = userId
    THEN Res(400, "No puedes solicitar adopción de tu propia publicación")
  ELSE NoRes

\* the checks of POST /requests with the one of lines 55-62 made before the
\* one of lines 46-53
createRequest_validar_propiaAntes(userId, publicacionId, mensaje) ==
  LET pubId == parseInt(publicacionId) IN
  IF publicacionId = <<>> \/ pubId.nan \/ ~mensaje
    THEN Res(400, "Faltan datos obligatorios (publicacionId y mensaje son requeridos)")
  ELSE IF pubId.val \notin DOMAIN publicacion
    THEN Res(404, "Publicación no encontrada")
  ELSE IF publicacion[pubId.val].usuarioId = userId
    THEN Res(400, "No puedes solicitar adopción de tu propia publicación")
  ELSE IF publicacion[pubId.val].estado # "disponible"
    THEN Res(400, "Esta publicación no está disponible para adopción")
  ELSE NoRes

\* the checks of POST /requests without the one of lines 55-62
createRequest_validar_sinPropia(userId, publicacionId, mensaje) ==
  LET pubId == parseInt(publicacionId) IN
  IF publicacionId = <<>> \/ pubId.nan \/ ~mensaje
    THEN Res(400, "Faltan datos obligatorios (publicacionId y mensaje son requeridos)")
  ELSE IF pubId.val \notin DOMAIN publicacion
    THEN Res(404, "Publicación no encontrada")
  ELSE IF publicacion[pubId.val].estado # "disponible"
    THEN Res(400, "Esta publicación no está disponible para adopción")
  ELSE NoRes

\* lines 12-62: the checks of POST /requests around the findUnique of the
\* publication; the response of the first failing check, or NoRes to go on
createRequest_validar(userId, publicacionId, mensaje) ==
  LET pubId == parseInt(publicacionId) IN
  IF publicacionId = <<>> \/ pubId.nan \/ ~mensaje
    THEN Res(400, "Faltan datos obligatorios (publicacionId y mensaje son requeridos)")
  ELSE IF pubId.val \notin DOMAIN publicacion
    THEN Res(404, "Publicación no encontrada")
  ELSE IF publicacion[pubId.val].estado # "disponible"
    THEN Res(400, "Esta publicación no está disponible para adopción")
  ELSE IF publicacion[pubId.val].usuarioId = userId
    THEN Res(400, "No puedes solicitar adopción de tu propia publicación")
  ELSE NoRes

\* POST /requests up to the await of line 65
createRequest(p, E) ==
  /\ pc[p] = "idle"
  /\ correo' = NoCorreo
  /\ UNCHANGED db
  /\ \E userId \in Usuarios, publicacionId \in IdsCuerpo(E.maxPub), mensaje \in BOOLEAN :
       LET r == createRequest_validar(userId, publicacionId, mensaje) IN
       IF r # NoRes
         THEN E.rechazos /\ Responder(p, r)
         ELSE Seguir(p, "createRequest_findSolicitud",
                     [NoLocal EXCEPT !.userId = userId, !.pubId = parseInt(publicacionId).val])

\* lines 65-81: findUnique on (usuarioId, publicacionId)
createRequest_findSolicitud(p) ==
  /\ pc[p] = "createRequest_findSolicitud"
  /\ correo' = NoCorreo
  /\ UNCHANGED db
  /\ IF solicitudExistente(local[p].userId, local[p].pubId) # {}
       THEN Responder(p, Res(400, "Ya enviaste una solicitud para esta publicación"))
       ELSE Seguir(p, "createRequest_create", local[p])

\* the insert without the unique index: only the foreign key is enforced
createRequest_rechazaInsert_sinIndice(userId, pubId) ==
  pubId \notin DOMAIN publicacion

\* the insert of line 85 throws on the unique index
\* Solicitud_usuarioId_publicacionId_key and on the foreign key to Publicacion
createRequest_rechazaInsert(userId, pubId) ==
  \/ solicitudExistente(userId, pubId) # {}
  \/ pubId \notin DOMAIN publicacion

\* lines 85-101: the insert (catch: 500)
createRequest_create(p) ==
  /\ pc[p] = "createRequest_create"
  /\ correo' = NoCorreo
  /\ UNCHANGED <<publicacion, mascota, seqPublicacion, seqMascota>>
  /\ IF createRequest_rechazaInsert(local[p].userId, local[p].pubId)
       THEN /\ Responder(p, Catch(pc[p], ErrorPrisma))
            /\ UNCHANGED <<solicitud, seqSolicitud>>
       ELSE /\ seqSolicitud < MaxSol
            /\ solicitud' = Poner(solicitud, seqSolicitud + 1,
                                  [estado |-> "Pendiente", usuarioId |-> local[p].userId,
                                   publicacionId |-> local[p].pubId])
            /\ seqSolicitud' = seqSolicitud + 1
            /\ Responder(p, Res(201, "Solicitud enviada correctamente"))

\* ------------------------------------------------------ deleteRequest
\* the checks of DELETE /requests/:id without the one of lines 142-145
deleteRequest_validar_sinPendiente(userId, id) ==
  LET solicitudId == parseInt(id) IN
  IF solicitudId.nan
    THEN Res(400, "ID de solicitud inválido")
  ELSE IF solicitudId.val \notin DOMAIN solicitud
    THEN Res(404, "Solicitud no encontrada")
  ELSE IF solicitud[solicitudId.val].usuarioId # userId
    THEN Res(403, "No tienes permiso para cancelar esta solicitud")
  ELSE NoRes

\* the checks of DELETE /requests/:id with the one of lines 142-145 made before
\* the one of lines 137-140
deleteRequest_validar_pendienteAntes(userId, id) ==
  LET solicitudId == parseInt(id) IN
  IF solicitudId.nan
    THEN Res(400, "ID de solicitud inválido")
  ELSE IF solicitudId.val \notin DOMAIN solicitud
    THEN Res(404, "Solicitud no encontrada")
  ELSE IF solicitud[solicitudId.val].estado # "Pendiente"
    THEN Res(400, "Solo se pueden cancelar solicitudes pendientes")
  ELSE IF solicitud[solicitudId.val].usuarioId # userId
    THEN Res(403, "No tienes permiso para cancelar esta solicitud")
  ELSE NoRes

\* lines 118-145: the checks of DELETE /requests/:id
deleteRequest_validar(userId, id) ==
  LET solicitudId == parseInt(id) IN
  IF solicitudId.nan
    THEN Res(400, "ID de solicitud inválido")
  ELSE IF solicitudId.val \notin DOMAIN solicitud
    THEN Res(404, "Solicitud no encontrada")
  ELSE IF solicitud[solicitudId.val].usuarioId # userId
    THEN Res(403, "No tienes permiso para cancelar esta solicitud")
  ELSE IF solicitud[solicitudId.val].estado # "Pendiente"
    THEN Res(400, "Solo se pueden cancelar solicitudes pendientes")
  ELSE NoRes

\* DELETE /requests/:id up to the await of line 148
deleteRequest(p, E) ==
  /\ pc[p] = "idle"
  /\ correo' = NoCorreo
  /\ UNCHANGED db
  /\ \E userId \in Usuarios, id \in IdsRuta(MaxSol) :
       LET r == deleteRequest_validar(userId, id) IN
       IF r # NoRes
         THEN E.rechazos /\ Responder(p, r)
         ELSE Seguir(p, "deleteRequest_delete",
                     [NoLocal EXCEPT !.userId = userId, !.id = parseInt(id).val])

\* a cancel that keeps the row and marks it Cancelada
deleteRequest_delete_marcaCancelada(p) ==
  /\ pc[p] = "deleteRequest_delete"
  /\ correo' = NoCorreo
  /\ UNCHANGED <<publicacion, mascota, seqPublicacion, seqMascota, seqSolicitud>>
  /\ IF local[p].id \notin DOMAIN solicitud
       THEN /\ Responder(p, Catch(pc[p], ErrorPrisma))
            /\ UNCHANGED solicitud
       ELSE /\ solicitud' = [solicitud EXCEPT ![local[p].id].estado = "Cancelada"]
            /\ Responder(p, Res(200, "Solicitud cancelada correctamente"))

\* a delete that puts the publication of the request back to "disponible"
deleteRequest_delete_conDisponible(p) ==
  /\ pc[p] = "deleteRequest_delete"
  /\ correo' = NoCorreo
  /\ UNCHANGED <<mascota, seqPublicacion, seqMascota, seqSolicitud>>
  /\ IF local[p].id \notin DOMAIN solicitud
       THEN /\ Responder(p, Catch(pc[p], ErrorPrisma))
            /\ UNCHANGED <<solicitud, publicacion>>
       ELSE /\ solicitud' = Quitar(solicitud, {local[p].id})
            /\ publicacion' = [publicacion EXCEPT
                                 ![solicitud[local[p].id].publicacionId].estado = "disponible"]
            /\ Responder(p, Res(200, "Solicitud cancelada correctamente"))

\* line 148: delete({where: {id}}), which throws when the row is gone
deleteRequest_delete(p) ==
  /\ pc[p] = "deleteRequest_delete"
  /\ correo' = NoCorreo
  /\ UNCHANGED <<publicacion, mascota, seqPublicacion, seqMascota, seqSolicitud>>
  /\ IF local[p].id \notin DOMAIN solicitud
       THEN /\ Responder(p, Catch(pc[p], ErrorPrisma))
            /\ UNCHANGED solicitud
       ELSE /\ solicitud' = Quitar(solicitud, {local[p].id})
            /\ Responder(p, Res(200, "Solicitud cancelada correctamente"))

\* ------------------------------------------------------ actualizarEstadoSolicitud
\* the checks of PATCH /requests/:id/estado with the one of lines 310-316 made
\* before the one of lines 302-308
actualizarEstadoSolicitud_validar_aprobadaAntes(userId, id, nuevoEstado) ==
  LET solicitudId == parseInt(id) IN
  IF solicitudId.nan
    THEN [status |-> 500, message |-> "Error interno del servidor", error |-> ErrorId,
          data |-> NoData]
  ELSE IF nuevoEstado \notin estadosPermitidos
    THEN Res(400, "Estado no válido")
  ELSE IF solicitudId.val \notin DOMAIN solicitud
    THEN Res(404, "Solicitud no encontrada")
  ELSE IF solicitud[solicitudId.val].estado = "Aprobada"
    THEN Res(400, "No se puede modificar una solicitud aprobada")
  ELSE IF publicacion[solicitud[solicitudId.val].publicacionId].usuarioId # userId
    THEN Res(403, "No autorizado para modificar esta solicitud")
  ELSE IF solicitud[solicitudId.val].estado = nuevoEstado
    THEN Res(200, "El estado ya estaba actualizado. No se envió correo.")
  ELSE NoRes

\* the checks of PATCH /requests/:id/estado without the one of lines 302-308
actualizarEstadoSolicitud_validar_sinDueno(userId, id, nuevoEstado) ==
  LET solicitudId == parseInt(id) IN
  IF solicitudId.nan
    THEN [status |-> 500, message |-> "Error interno del servidor", error |-> ErrorId,
          data |-> NoData]
  ELSE IF nuevoEstado \notin estadosPermitidos
    THEN Res(400, "Estado no válido")
  ELSE IF solicitudId.val \notin DOMAIN solicitud
    THEN Res(404, "Solicitud no encontrada")
  ELSE IF solicitud[solicitudId.val].estado = "Aprobada"
    THEN Res(400, "No se puede modificar una solicitud aprobada")
  ELSE IF solicitud[solicitudId.val].estado = nuevoEstado
    THEN Res(200, "El estado ya estaba actualizado. No se envió correo.")
  ELSE NoRes

\* the checks of PATCH /requests/:id/estado without the one of lines 318-325
actualizarEstadoSolicitud_validar_sinAtajo(userId, id, nuevoEstado) ==
  LET solicitudId == parseInt(id) IN
  IF solicitudId.nan
    THEN [status |-> 500, message |-> "Error interno del servidor", error |-> ErrorId,
          data |-> NoData]
  ELSE IF nuevoEstado \notin estadosPermitidos
    THEN Res(400, "Estado no válido")
  ELSE IF solicitudId.val \notin DOMAIN solicitud
    THEN Res(404, "Solicitud no encontrada")
  ELSE IF publicacion[solicitud[solicitudId.val].publicacionId].usuarioId # userId
    THEN Res(403, "No autorizado para modificar esta solicitud")
  ELSE IF solicitud[solicitudId.val].estado = "Aprobada"
    THEN Res(400, "No se puede modificar una solicitud aprobada")
  ELSE NoRes

\* the checks of PATCH /requests/:id/estado with Rechazada refused like Aprobada
actualizarEstadoSolicitud_validar_rechazadaTerminal(userId, id, nuevoEstado) ==
  LET solicitudId == parseInt(id) IN
  IF solicitudId.nan
    THEN [status |-> 500, message |-> "Error interno del servidor", error |-> ErrorId,
          data |-> NoData]
  ELSE IF nuevoEstado \notin estadosPermitidos
    THEN Res(400, "Estado no válido")
  ELSE IF solicitudId.val \notin DOMAIN solicitud
    THEN Res(404, "Solicitud no encontrada")
  ELSE IF publicacion[solicitud[solicitudId.val].publicacionId].usuarioId # userId
    THEN Res(403, "No autorizado para modificar esta solicitud")
  ELSE IF solicitud[solicitudId.val].estado \in {"Aprobada", "Rechazada"}
    THEN Res(400, "No se puede modificar una solicitud aprobada")
  ELSE IF solicitud[solicitudId.val].estado = nuevoEstado
    THEN Res(200, "El estado ya estaba actualizado. No se envió correo.")
  ELSE NoRes

\* the checks of PATCH /requests/:id/estado without the one of lines 310-316
actualizarEstadoSolicitud_validar_sinAprobada(userId, id, nuevoEstado) ==
  LET solicitudId == parseInt(id) IN
  IF solicitudId.nan
    THEN [status |-> 500, message |-> "Error interno del servidor", error |-> ErrorId,
          data |-> NoData]
  ELSE IF nuevoEstado \notin estadosPermitidos
    THEN Res(400, "Estado no válido")
  ELSE IF solicitudId.val \notin DOMAIN solicitud
    THEN Res(404, "Solicitud no encontrada")
  ELSE IF publicacion[solicitud[solicitudId.val].publicacionId].usuarioId # userId
    THEN Res(403, "No autorizado para modificar esta solicitud")
  ELSE IF solicitud[solicitudId.val].estado = nuevoEstado
    THEN Res(200, "El estado ya estaba actualizado. No se envió correo.")
  ELSE NoRes

\* lines 271-325: the checks of PATCH /requests/:id/estado
actualizarEstadoSolicitud_validar(userId, id, nuevoEstado) ==
  LET solicitudId == parseInt(id) IN
  IF solicitudId.nan
    THEN [status |-> 500, message |-> "Error interno del servidor", error |-> ErrorId,
          data |-> NoData]
  ELSE IF nuevoEstado \notin estadosPermitidos
    THEN Res(400, "Estado no válido")
  ELSE IF solicitudId.val \notin DOMAIN solicitud
    THEN Res(404, "Solicitud no encontrada")
  ELSE IF publicacion[solicitud[solicitudId.val].publicacionId].usuarioId # userId
    THEN Res(403, "No autorizado para modificar esta solicitud")
  ELSE IF solicitud[solicitudId.val].estado = "Aprobada"
    THEN Res(400, "No se puede modificar una solicitud aprobada")
  ELSE IF solicitud[solicitudId.val].estado = nuevoEstado
    THEN Res(200, "El estado ya estaba actualizado. No se envió correo.")
  ELSE NoRes

\* PATCH /requests/:id/estado up to the first update (line 333 or 373)
actualizarEstadoSolicitud(p, E) ==
  /\ pc[p] = "idle"
  /\ correo' = NoCorreo
  /\ UNCHANGED db
  /\ \E userId \in Usuarios, id \in IdsRuta(MaxSol), nuevoEstado \in EstadosEntrada :
       LET r == actualizarEstadoSolicitud_validar(userId, id, nuevoEstado)
           solicitudId == parseInt(id).val
       IN IF r # NoRes
            THEN E.rechazos /\ Responder(p, r)
            ELSE Seguir(p, IF nuevoEstado = "Aprobada" THEN "aprobar_updateSolicitud"
                                                       ELSE "otros_updateSolicitud",
                        [NoLocal EXCEPT !.userId = userId, !.id = solicitudId,
                                        !.pubId = solicitud[solicitudId].publicacionId,
                                        !.nuevoEstado = nuevoEstado,
                                        !.to = solicitud[solicitudId].usuarioId])

\* an update that writes the new state on every request of the publication
updateSolicitud_conCascada(p, luego) ==
  /\ correo' = NoCorreo
  /\ UNCHANGED <<publicacion, mascota, seqPublicacion, seqMascota, seqSolicitud>>
  /\ IF local[p].id \notin DOMAIN solicitud
       THEN /\ Responder(p, Catch(pc[p], ErrorPrisma))
            /\ UNCHANGED solicitud
       ELSE /\ solicitud' = [s \in DOMAIN solicitud |->
                               IF solicitud[s].publicacionId = local[p].pubId
                                 THEN [solicitud[s] EXCEPT !.estado = local[p].nuevoEstado]
                                 ELSE solicitud[s]]
            /\ Seguir(p, luego, local[p])

\* solicitud.update({where: {id}, data: {estado}}) of lines 333 and 373
updateSolicitud(p, luego) ==
  /\ correo' = NoCorreo
  /\ UNCHANGED <<publicacion, mascota, seqPublicacion, seqMascota, seqSolicitud>>
  /\ IF local[p].id \notin DOMAIN solicitud
       THEN /\ Responder(p, Catch(pc[p], ErrorPrisma))
            /\ UNCHANGED solicitud
       ELSE /\ solicitud' = [solicitud EXCEPT ![local[p].id].estado = local[p].nuevoEstado]
            /\ Seguir(p, luego, local[p])

\* line 333: the request becomes Aprobada
aprobar_updateSolicitud(p) ==
  /\ pc[p] = "aprobar_updateSolicitud"
  /\ updateSolicitud(p, "aprobar_updatePublicacion")

\* the update of the publication with the mail sent at once
aprobar_updatePublicacion_conCorreo(p) ==
  /\ pc[p] = "aprobar_updatePublicacion"
  /\ correo' = [to |-> local[p].to, estado |-> local[p].nuevoEstado]
  /\ UNCHANGED <<mascota, solicitud, seqPublicacion, seqMascota, seqSolicitud>>
  /\ IF local[p].pubId \notin DOMAIN publicacion
       THEN /\ Responder(p, Catch(pc[p], ErrorPrisma))
            /\ UNCHANGED publicacion
       ELSE /\ publicacion' = [publicacion EXCEPT ![local[p].pubId].estado = "no disponible"]
            /\ Seguir(p, "aprobar_updateMany", local[p])

\* line 339: the publication becomes "no disponible"
aprobar_updatePublicacion(p) ==
  /\ pc[p] = "aprobar_updatePublicacion"
  /\ correo' = NoCorreo
  /\ UNCHANGED <<mascota, solicitud, seqPublicacion, seqMascota, seqSolicitud>>
  /\ IF local[p].pubId \notin DOMAIN publicacion
       THEN /\ Responder(p, Catch(pc[p], ErrorPrisma))
            /\ UNCHANGED publicacion
       ELSE /\ publicacion' = [publicacion EXCEPT ![local[p].pubId].estado = "no disponible"]
            /\ Seguir(p, "aprobar_updateMany", local[p])

\* updateMany without its filter on estado: every other request is selected
OtrasPendientes_sinEstado(pubId, id) ==
  {s \in DOMAIN solicitud : solicitud[s].publicacionId = pubId /\ s # id}

\* the rows the updateMany of line 345 selects
OtrasPendientes(pubId, id) ==
  {s \in DOMAIN solicitud : /\ solicitud[s].publicacionId = pubId
                            /\ s # id
                            /\ solicitud[s].estado = "Pendiente"}

\* line 345: the other pending requests of the publication become Rechazada
aprobar_updateMany(p) ==
  /\ pc[p] = "aprobar_updateMany"
  /\ correo' = NoCorreo
  /\ UNCHANGED <<publicacion, mascota, seqPublicacion, seqMascota, seqSolicitud>>
  /\ solicitud' = [s \in DOMAIN solicitud |->
                     IF s \in OtrasPendientes(local[p].pubId, local[p].id)
                       THEN [solicitud[s] EXCEPT !.estado = "Rechazada"]
                       ELSE solicitud[s]]
  /\ Seguir(p, "aprobar_enviar", local[p])

\* line 373: the request becomes Rechazada or Pendiente
otros_updateSolicitud(p) ==
  /\ pc[p] = "otros_updateSolicitud"
  /\ updateSolicitud(p, "otros_enviar")

\* `Solicitud actualizada a ${nuevoEstado} y correo enviado al solicitante.`
MensajeActualizada(nuevoEstado) ==
  CASE nuevoEstado = "Aprobada" ->
         "Solicitud actualizada a Aprobada y correo enviado al solicitante."
    [] nuevoEstado = "Rechazada" ->
         "Solicitud actualizada a Rechazada y correo enviado al solicitante."
    [] nuevoEstado = "Pendiente" ->
         "Solicitud actualizada a Pendiente y correo enviado al solicitante."

\* the mail addressed to the caller instead of the requester
enviarNotificacionCambioEstado_alDueno(p) ==
  /\ pc[p] \in {"aprobar_enviar", "otros_enviar"}
  /\ correo' = [to |-> local[p].userId, estado |-> local[p].nuevoEstado]
  /\ Responder(p, Res(200, MensajeActualizada(local[p].nuevoEstado)))
  /\ UNCHANGED db

\* lines 358-369 and 382-393: the mail is sent and the handler answers 200
enviarNotificacionCambioEstado(p) ==
  /\ pc[p] \in {"aprobar_enviar", "otros_enviar"}
  /\ correo' = [to |-> local[p].to, estado |-> local[p].nuevoEstado]
  /\ Responder(p, Res(200, MensajeActualizada(local[p].nuevoEstado)))
  /\ UNCHANGED db

\* ------------------------------------------------------ updatePublication
\* express-validator chain of updatePublicationValidations (foto and estado optional)
updatePublicationValidations(foto, estado, tipo) ==
  /\ tipo \in Tipos
  /\ estado \in EstadosEdicion \cup {"-"}
  /\ foto \in Fotos \cup {"-"}

\* lines 438-468: the checks of PUT /publications/:id
updatePublication_validar(userId, id, foto, estado, tipo) ==
  LET pubId == parseInt(id) IN
  IF ~updatePublicationValidations(foto, estado, tipo)
    THEN Res(400, "errores")
  ELSE IF pubId.nan
    THEN Res(400, "ID de publicación inválido")
  ELSE IF pubId.val \notin DOMAIN publicacion
    THEN Res(404, "Publicación no encontrada")
  ELSE IF publicacion[pubId.val].usuarioId # userId
    THEN Res(403, "No tienes permiso para editar esta publicación")
  ELSE NoRes

\* the bodies of an edit: the valid ones and one that fails the validations
CuerposEdicion(E) ==
  ((E.fotos \cup {"-"}) \X (EstadosEdicion \cup {"-"}) \X E.tipos)
     \cup {<<"-", "no disponible", "Pez">>}

\* an edit that never finds the pet of the publication
mascotaExistente_ausente(pubId) == {0}

\* line 470: publicacion.Mascota[0], any of the pets the include returned (the
\* query has no order), or none (0) when the publication has no pet
mascotaExistente(pubId) == IF MascotasDe(pubId) = {} THEN {0} ELSE MascotasDe(pubId)

\* an update that writes both fields whether or not the body has them
updatedPublicacion_sinOpcionales(fila, foto, estado) ==
  [fila EXCEPT !.foto = foto, !.estado = IF estado # "-" THEN estado ELSE "disponible"]

\* lines 474-484: updateData holds the photo and the estado the body has ("-":
\* the body has none), and the row is written with them
updatedPublicacion(fila, foto, estado) ==
  [fila EXCEPT !.foto = IF foto # "-" THEN foto ELSE @,
               !.estado = IF estado # "-" THEN estado ELSE @]

\* PUT /publications/:id up to the transaction of line 472
updatePublication(p, E) ==
  /\ pc[p] = "idle"
  /\ correo' = NoCorreo
  /\ UNCHANGED db
  /\ \E userId \in Usuarios, id \in IdsRuta(E.maxPub), body \in CuerposEdicion(E) :
       LET foto == body[1]
           estado == body[2]
           tipo == body[3]
           r == updatePublication_validar(userId, id, foto, estado, tipo)
           pubId == parseInt(id).val
       IN IF r # NoRes
            THEN E.rechazos /\ Responder(p, r)
            ELSE \E m \in mascotaExistente(pubId) :
                   Seguir(p, "updatePublication_transaction",
                          [NoLocal EXCEPT !.userId = userId, !.pubId = pubId,
                                          !.foto = foto, !.estado = estado, !.tipo = tipo,
                                          !.mascotaId = m])

\* lines 472-500: the transaction. An update of a row that is gone throws,
\* which rolls the transaction back (catch: 500).
updatePublication_transaction(p) ==
  /\ pc[p] = "updatePublication_transaction"
  /\ correo' = NoCorreo
  /\ UNCHANGED <<solicitud, seqSolicitud, seqPublicacion>>
  /\ LET l == local[p]
         tocaPublicacion == l.foto # "-" \/ l.estado # "-"
     IN IF \/ tocaPublicacion /\ l.pubId \notin DOMAIN publicacion
           \/ l.mascotaId # 0 /\ l.mascotaId \notin DOMAIN mascota
           \/ l.mascotaId = 0 /\ l.pubId \notin DOMAIN publicacion
          THEN /\ Responder(p, Catch(pc[p], ErrorPrisma))
               /\ UNCHANGED <<publicacion, mascota, seqMascota>>
          ELSE /\ publicacion' =
                    IF tocaPublicacion
                      THEN [publicacion EXCEPT
                              ![l.pubId] = updatedPublicacion(@, l.foto, l.estado)]
                      ELSE publicacion
               /\ IF l.mascotaId # 0
                    THEN /\ mascota' = [mascota EXCEPT ![l.mascotaId].tipo = l.tipo]
                         /\ UNCHANGED seqMascota
                    ELSE /\ mascota' = Poner(mascota, seqMascota + 1,
                                             [tipo |-> l.tipo, publicacionId |-> l.pubId])
                         /\ seqMascota' = seqMascota + 1
               /\ Responder(p, Res(200, "La publicación se editó correctamente"))

\* ------------------------------------------------------ deletePublication
\* the checks of DELETE /publications/:id without the one of lines 724-727
deletePublication_validar_sinDueno(userId, id) ==
  LET pubId == parseInt(id) IN
  IF pubId.nan
    THEN Res(400, "ID de publicación inválido")
  ELSE IF pubId.val \notin DOMAIN publicacion
    THEN Res(404, "Publicación no encontrada")
  ELSE NoRes

\* lines 701-727: the checks of DELETE /publications/:id
deletePublication_validar(userId, id) ==
  LET pubId == parseInt(id) IN
  IF pubId.nan
    THEN Res(400, "ID de publicación inválido")
  ELSE IF pubId.val \notin DOMAIN publicacion
    THEN Res(404, "Publicación no encontrada")
  ELSE IF publicacion[pubId.val].usuarioId # userId
    THEN Res(403, "No tienes permiso para eliminar esta publicación")
  ELSE NoRes

\* DELETE /publications/:id up to the delete of line 730
deletePublication(p, E) ==
  /\ pc[p] = "idle"
  /\ correo' = NoCorreo
  /\ UNCHANGED db
  /\ \E userId \in Usuarios, id \in IdsRuta(E.maxPub) :
       LET r == deletePublication_validar(userId, id) IN
       IF r # NoRes
         THEN E.rechazos /\ Responder(p, r)
         ELSE Seguir(p, "deletePublication_delete",
                     [NoLocal EXCEPT !.userId = userId, !.pubId = parseInt(id).val])

\* the delete with no cascade on Solicitud
deletePublication_delete_sinCascada(p) ==
  /\ pc[p] = "deletePublication_delete"
  /\ correo' = NoCorreo
  /\ UNCHANGED <<seqPublicacion, seqMascota, seqSolicitud>>
  /\ IF local[p].pubId \notin DOMAIN publicacion
       THEN /\ Responder(p, Catch(pc[p], ErrorPrisma))
            /\ UNCHANGED <<publicacion, mascota, solicitud>>
       ELSE /\ publicacion' = Quitar(publicacion, {local[p].pubId})
            /\ mascota' = Quitar(mascota, MascotasDe(local[p].pubId))
            /\ solicitud' = solicitud
            /\ Responder(p, Res(200, "La publicación se eliminó correctamente"))

\* line 730: the delete, with ON DELETE CASCADE on Mascota and Solicitud
deletePublication_delete(p) ==
  /\ pc[p] = "deletePublication_delete"
  /\ correo' = NoCorreo
  /\ UNCHANGED <<seqPublicacion, seqMascota, seqSolicitud>>
  /\ IF local[p].pubId \notin DOMAIN publicacion
       THEN /\ Responder(p, Catch(pc[p], ErrorPrisma))
            /\ UNCHANGED <<publicacion, mascota, solicitud>>
       ELSE /\ publicacion' = Quitar(publicacion, {local[p].pubId})
            /\ mascota' = Quitar(mascota, MascotasDe(local[p].pubId))
            /\ solicitud' = Quitar(solicitud, SolicitudesDe(local[p].pubId))
            /\ Responder(p, Res(200, "La publicación se eliminó correctamente"))

\* ------------------------------------------------------ listings
\* res.json of a listing: the rows, and the text the handler adds when there
\* are none
Lista(de, userId, tipo, filas, vacio) ==
  [status |-> 200, message |-> IF filas = {} THEN vacio ELSE "-", error |-> "-",
   data |-> [de |-> de, userId |-> userId, tipo |-> tipo, filas |-> filas]]

\* a where clause that holds only the species
filtros_sinEstado(tipo) ==
  {P \in DOMAIN publicacion :
     tipo = "-" \/ \E m \in MascotasDe(P) : mascota[m].tipo = tipo}

\* lines 651-658: where {estado: 'disponible'}, and Mascota {some: {tipo}} when
\* the query has a tipo ("-": it has none)
filtros(tipo) ==
  {P \in DOMAIN publicacion :
     /\ publicacion[P].estado = "disponible"
     /\ tipo = "-" \/ \E m \in MascotasDe(P) : mascota[m].tipo = tipo}

\* GET /publications/available: the whole handler, whose only await is the
\* findMany of line 660 (catch: 500)
getPublicacionesDisponibles(p, E) ==
  /\ pc[p] = "idle"
  /\ correo' = NoCorreo
  /\ UNCHANGED db
  /\ \E tipo \in E.tipos \cup {"-"} :
       \/ Responder(p, Lista("disponibles", 0, tipo,
                             {[id |-> P, estado |-> publicacion[P].estado] : P \in filtros(tipo)},
                             "No hay animales disponibles para adopción en este momento"))
       \/ E.rechazos /\ Responder(p, Catch("getPublicacionesDisponibles", ErrorPrisma))

\* a where clause on the requester instead of the owner of the publication
solicitudesRecibidas_delSolicitante(userId) ==
  {s \in DOMAIN solicitud : solicitud[s].usuarioId = userId}

\* lines 165-170: where {publicacion: {usuarioId: userId}}
solicitudesRecibidas(userId) ==
  {s \in DOMAIN solicitud : publicacion[solicitud[s].publicacionId].usuarioId = userId}

\* GET /requests/recibidas: the whole handler (findMany of line 165; catch: 500)
getSolicitudesRecibidas(p, E) ==
  /\ pc[p] = "idle"
  /\ correo' = NoCorreo
  /\ UNCHANGED db
  /\ \E userId \in Usuarios :
       \/ Responder(p, Lista("recibidas", userId, "-",
                             {[id |-> s, estado |-> solicitud[s].estado] :
                                s \in solicitudesRecibidas(userId)},
                             "No hay solicitudes para tus publicaciones."))
       \/ E.rechazos /\ Responder(p, Catch("getSolicitudesRecibidas", ErrorPrisma))

\* lines 218-221: where {usuarioId: userId}
solicitudesEnviadas(userId) ==
  {s \in DOMAIN solicitud : solicitud[s].usuarioId = userId}

\* GET /requests/enviadas: the whole handler (findMany of line 218; catch: 500)
getSolicitudesEnviadas(p, E) ==
  /\ pc[p] = "idle"
  /\ correo' = NoCorreo
  /\ UNCHANGED db
  /\ \E userId \in Usuarios :
       \/ Responder(p, Lista("enviadas", userId, "-",
                             {[id |-> s, estado |-> solicitud[s].estado] :
                                s \in solicitudesEnviadas(userId)},
                             "No has enviado solicitudes de adopción."))
       \/ E.rechazos /\ Responder(p, Catch("getSolicitudesEnviadas", ErrorPrisma))

\* ------------------------------------------------------ failures
\* an awaited Prisma statement throws (the store is unreachable, a timeout):
\* the statement has no effect and the catch block answers 500
errorPersistencia(p) ==
  /\ pc[p] \in {"createRequest_findSolicitud", "createRequest_create",
                "deleteRequest_delete", "aprobar_updateSolicitud",
                "aprobar_updatePublicacion", "aprobar_updateMany",
                "otros_updateSolicitud", "updatePublication_transaction",
                "deletePublication_delete"}
  /\ Responder(p, Catch(pc[p], ErrorPrisma))
  /\ correo' = NoCorreo
  /\ UNCHANGED db

\* a catch block that puts the request back to Pendiente
errorCorreo_conReversion(p) ==
  /\ pc[p] \in {"aprobar_enviar", "otros_enviar"}
  /\ Responder(p, Catch(pc[p], ErrorCorreo))
  /\ correo' = NoCorreo
  /\ solicitud' = [s \in DOMAIN solicitud |->
                     IF s = local[p].id THEN [solicitud[s] EXCEPT !.estado = "Pendiente"]
                                        ELSE solicitud[s]]
  /\ UNCHANGED <<publicacion, mascota, seqPublicacion, seqMascota, seqSolicitud>>

\* transporter.sendMail throws: the catch block answers 500
errorCorreo(p) ==
  /\ pc[p] \in {"aprobar_enviar", "otros_enviar"}
  /\ Responder(p, Catch(pc[p], ErrorCorreo))
  /\ correo' = NoCorreo
  /\ UNCHANGED db

\* ------------------------------------------------------ specifications
Paso(p, E) ==
  \/ createPublication(p, E)
  \/ createRequest(p, E)
  \/ createRequest_findSolicitud(p)
  \/ createRequest_create(p)
  \/ deleteRequest(p, E)
  \/ deleteRequest_delete(p)
  \/ actualizarEstadoSolicitud(p, E)
  \/ aprobar_updateSolicitud(p)
  \/ aprobar_updatePublicacion(p)
  \/ aprobar_updateMany(p)
  \/ otros_updateSolicitud(p)
  \/ enviarNotificacionCambioEstado(p)
  \/ updatePublication(p, E)
  \/ updatePublication_transaction(p)
  \/ deletePublication(p, E)
  \/ deletePublication_delete(p)
  \/ errorPersistencia(p)
  \/ errorCorreo(p)

\* calls of several connections interleave at their awaits
Next == \E p \in Procs : Paso(p, EntradasConc)
Spec == Init /\ [][Next]_vars

\* one call at a time: a single connection, whose calls run to completion
Conexion == CHOOSE p \in Procs : TRUE
NextSec == Paso(Conexion, EntradasSec)
SpecSec == Init /\ [][NextSec]_vars

\* one call at a time on a store that may hold one publication more, with one
\* photo and one species
EntradasPub == [fotos |-> {"foto1"}, tipos |-> {"Perro"}, rechazos |-> TRUE,
                maxPub |-> MaxPub + 1, publicadores |-> Publicadores]
NextPub == Paso(Conexion, EntradasPub)
SpecPub == Init /\ [][NextPub]_vars

\* one call at a time, the listings among them, on a store that may hold one
\* publication more: of two owners and one species (Lec), or of one owner and
\* two species (Esp). A listing reads the store once and writes nothing, so the
\* other specifications leave the listings out.
EntradasLec == [fotos |-> {"foto1"}, tipos |-> {"Perro"}, rechazos |-> FALSE,
                maxPub |-> MaxPub + 1, publicadores |-> 1..(MaxPub + 1)]
EntradasEsp == [fotos |-> {"foto1"}, tipos |-> Tipos, rechazos |-> FALSE,
                maxPub |-> MaxPub + 1, publicadores |-> Publicadores]
Lecturas(p, E) ==
  \/ getPublicacionesDisponibles(p, E)
  \/ getSolicitudesRecibidas(p, E)
  \/ getSolicitudesEnviadas(p, E)
NextLec == Paso(Conexion, EntradasLec) \/ Lecturas(Conexion, EntradasLec)
SpecLec == Init /\ [][NextLec]_vars
NextEsp == Paso(Conexion, EntradasEsp) \/ Lecturas(Conexion, EntradasEsp)
SpecEsp == Init /\ [][NextEsp]_vars

\* one call at a time, of the calls on requests only (submit, cancel, change of
\* state) after the publication was created, none of which fails in the store
\* or in the mail
PasoSolicitudes(p, E) ==
  \/ createPublication(p, E)
  \/ createRequest(p, E)
  \/ createRequest_findSolicitud(p)
  \/ createRequest_create(p)
  \/ deleteRequest(p, E)
  \/ deleteRequest_delete(p)
  \/ actualizarEstadoSolicitud(p, E)
  \/ aprobar_updateSolicitud(p)
  \/ aprobar_updatePublicacion(p)
  \/ aprobar_updateMany(p)
  \/ otros_updateSolicitud(p)
  \/ enviarNotificacionCambioEstado(p)
NextSol == PasoSolicitudes(Conexion, EntradasSec)
SpecSol == Init /\ [][NextSol]_vars

\* ====================================================== properties
Reposo == \A p \in Procs : pc[p] = "idle"
Aprobadas(pubId) == {s \in SolicitudesDe(pubId) : solicitud[s].estado = "Aprobada"}
EnAprobacion == {"aprobar_updateSolicitud", "aprobar_updatePublicacion",
                 "aprobar_updateMany", "aprobar_enviar"}
ResAprobada == Res(400, "No se puede modificar una solicitud aprobada")
ResCorreoEnviado == Res(200, MensajeActualizada("Aprobada"))

\* C1: between calls, a publication is "no disponible" exactly when one of its
\* requests is Aprobada, and "disponible" exactly when none is.
C1_DisponibilidadDerivada ==
  Reposo =>
    \A P \in DOMAIN publicacion :
      /\ publicacion[P].estado = "no disponible" <=> Aprobadas(P) # {}
      /\ publicacion[P].estado = "disponible" <=> Aprobadas(P) = {}

\* C2: an approval that runs alone writes, in this order, the request to
\* Aprobada, the publication to "no disponible" and the other pending requests
\* of the publication to Rechazada, leaving every other row as it was; when it
\* answers 200 the request is Aprobada, the publication "no disponible" and no
\* other request of the publication is Pendiente.
C2_EfectoAprobacion ==
  [][\A p \in Procs :
       LET id == local[p].id
           pubId == local[p].pubId
       IN /\ (pc[p] = "aprobar_updateSolicitud" /\ pc'[p] = "aprobar_updatePublicacion") =>
               /\ solicitud' = [solicitud EXCEPT ![id].estado = "Aprobada"]
               /\ publicacion' = publicacion
          /\ (pc[p] = "aprobar_updatePublicacion" /\ pc'[p] = "aprobar_updateMany") =>
               /\ solicitud' = solicitud
               /\ publicacion' = [publicacion EXCEPT ![pubId].estado = "no disponible"]
          /\ (pc[p] = "aprobar_updateMany" /\ pc'[p] = "aprobar_enviar") =>
               /\ publicacion' = publicacion
               /\ DOMAIN solicitud' = DOMAIN solicitud
               /\ solicitud'[id] = solicitud[id]
               /\ \A s \in SolicitudesDe(pubId) \ {id} :
                    IF solicitud[s].estado = "Pendiente"
                      THEN solicitud'[s] = [solicitud[s] EXCEPT !.estado = "Rechazada"]
                      ELSE solicitud'[s] = solicitud[s]
               /\ \A s \in DOMAIN solicitud \ SolicitudesDe(pubId) : solicitud'[s] = solicitud[s]
          /\ (pc[p] = "aprobar_enviar" /\ res' = ResCorreoEnviado) =>
               /\ db' = db
               /\ solicitud[id].estado = "Aprobada"
               /\ publicacion[pubId].estado = "no disponible"
               /\ \A s \in SolicitudesDe(pubId) \ {id} : solicitud[s].estado # "Pendiente"
    ]_vars

\* C2 witness: an approval has just answered 200 and a sibling of the approved
\* request stands Rechazada
C2_Testigo ==
  /\ res = ResCorreoEnviado
  /\ correo.estado = "Aprobada"
  /\ \E a, r \in DOMAIN solicitud :
       /\ solicitud[a].publicacionId = solicitud[r].publicacionId
       /\ solicitud[a].estado = "Aprobada" /\ solicitud[a].usuarioId = correo.to
       /\ solicitud[r].estado = "Rechazada"
       /\ publicacion[solicitud[a].publicacionId].estado = "no disponible"

\* C3: two approvals in flight on distinct requests of one publication never
\* leave both requests Aprobada.
C3_UnaSolaAprobacion ==
  \A p, q \in Procs :
    (/\ p # q
     /\ pc[p] \in EnAprobacion /\ pc[q] \in EnAprobacion
     /\ local[p].id # local[q].id
     /\ local[p].pubId = local[q].pubId
     /\ local[p].id \in DOMAIN solicitud /\ local[q].id \in DOMAIN solicitud)
    => ~(solicitud[local[p].id].estado = "Aprobada" /\ solicitud[local[q].id].estado = "Aprobada")

\* C4: no two requests have the same requester and publication, and a submit
\* that reaches its insert when the pair already has a request inserts nothing.
C4_UnicaPorUsuarioYPublicacion ==
  /\ [](\A s, t \in DOMAIN solicitud :
          (solicitud[s].usuarioId = solicitud[t].usuarioId
           /\ solicitud[s].publicacionId = solicitud[t].publicacionId) => s = t)
  /\ [][\A p \in Procs :
          (/\ pc[p] = "createRequest_create" /\ pc'[p] = "idle"
           /\ solicitudExistente(local[p].userId, local[p].pubId) # {})
          => (solicitud' = solicitud /\ seqSolicitud' = seqSolicitud /\ res'.status = 500)
       ]_vars

\* C4 witness: two submits of one user for one publication both passed the
\* duplicate check; one has inserted its request and the other is at its insert
C4_Testigo ==
  \E p, q \in Procs :
    /\ p # q
    /\ pc[p] = "idle" /\ res.status = 201
    /\ pc[q] = "createRequest_create"
    /\ solicitudExistente(local[q].userId, local[q].pubId) # {}

\* C5: whatever state the owner of the publication asks for, a status change of
\* a request that is Aprobada is answered 400 "No se puede modificar una
\* solicitud aprobada"; the step that answers so writes nothing, sends no mail
\* and starts nothing.
C5_AprobadaEsInmutable ==
  /\ [](\A userId \in Usuarios, s \in DOMAIN solicitud, nuevoEstado \in estadosPermitidos :
          (/\ solicitud[s].estado = "Aprobada"
           /\ publicacion[solicitud[s].publicacionId].usuarioId = userId)
          => actualizarEstadoSolicitud_validar(userId, TextoDe(s), nuevoEstado) = ResAprobada)
  /\ [][res' = ResAprobada => (db' = db /\ correo' = NoCorreo /\ pc' = pc)]_vars

\* C5 witness: the 400 was answered while an approved request exists
C5_Testigo ==
  /\ res = ResAprobada
  /\ correo = NoCorreo
  /\ \E s \in DOMAIN solicitud :
       solicitud[s].estado = "Aprobada"
       /\ publicacion[solicitud[s].publicacionId].estado = "no disponible"

\* C6: when a statement of an approval throws after the request was written,
\* the request is not left Aprobada.
C6_SinEstadoParcial ==
  [][\A p \in Procs :
       (/\ pc[p] \in {"aprobar_updatePublicacion", "aprobar_updateMany"}
        /\ pc'[p] = "idle" /\ res'.status = 500
        /\ local[p].id \in DOMAIN solicitud')
       => solicitud'[local[p].id].estado # "Aprobada"
    ]_vars

\* C7: no submit reads its publication as "disponible" while a request of that
\* publication is already Aprobada by an approval that has not yet written the
\* publication.
C7_AprobacionAtomica ==
  [][\A q \in Procs :
       (pc[q] = "idle" /\ pc'[q] = "createRequest_findSolicitud")
       => ~\E p \in Procs :
             /\ pc[p] = "aprobar_updatePublicacion"
             /\ local[p].pubId = local'[q].pubId
             /\ local[p].id \in DOMAIN solicitud
             /\ solicitud[local[p].id].estado = "Aprobada"
    ]_vars

\* C8: a request that is Aprobada stays Aprobada for as long as it exists.
C8_AprobadaEsTerminal ==
  [][\A s \in DOMAIN solicitud \cap DOMAIN solicitud' :
       solicitud[s].estado = "Aprobada" => solicitud'[s].estado = "Aprobada"]_vars

\* C9: the delete of a cancel removes a request only when it is Pendiente.
C9_CancelaSoloPendiente ==
  [][\A p \in Procs :
       (/\ pc[p] = "deleteRequest_delete" /\ pc'[p] = "idle"
        /\ local[p].id \in DOMAIN solicitud
        /\ local[p].id \notin DOMAIN solicitud')
       => solicitud[local[p].id].estado = "Pendiente"
    ]_vars

\* C10: a request is inserted only while its publication is "disponible".
C10_CreaSoloSiDisponible ==
  [][\A s \in DOMAIN solicitud' \ DOMAIN solicitud :
       /\ solicitud'[s].publicacionId \in DOMAIN publicacion
       /\ publicacion[solicitud'[s].publicacionId].estado = "disponible"]_vars

\* ------------------------------------------------------ responses named by the claims
ResCancelada == Res(200, "Solicitud cancelada correctamente")
ResSoloPendientes == Res(400, "Solo se pueden cancelar solicitudes pendientes")
ResSolicitudNoEncontrada == Res(404, "Solicitud no encontrada")
ResPropia == Res(400, "No puedes solicitar adopción de tu propia publicación")
ResNoDisponible == Res(400, "Esta publicación no está disponible para adopción")
\* ids of requests that existed and were deleted (ids are never handed out twice)
Borradas == (1..seqSolicitud) \ DOMAIN solicitud

C12_PropiaSiempreRechazada ==
  /\ [](\A P \in DOMAIN publicacion :
          LET r == createRequest_validar(publicacion[P].usuarioId, TextoDe(P), TRUE) IN
          /\ r.status = 400
          /\ r = IF publicacion[P].estado = "disponible" THEN ResPropia ELSE ResNoDisponible)
  /\ [](\A s \in DOMAIN solicitud :
          solicitud[s].usuarioId # publicacion[solicitud[s].publicacionId].usuarioId)
  /\ [][res' = ResPropia => (db' = db /\ pc' = pc)]_vars

\* C12 witness: the owner's submit has just been refused on a publication
\* that has a request of another user
C12_Testigo ==
  /\ res = ResPropia
  /\ \E s \in DOMAIN solicitud : solicitud[s].estado = "Pendiente"

ResFaltan == Res(400, "Faltan datos obligatorios (publicacionId y mensaje son requeridos)")
ResPublicacionNoEncontrada == Res(404, "Publicación no encontrada")
ResDuplicada == Res(400, "Ya enviaste una solicitud para esta publicación")
ResEnviada == Res(201, "Solicitud enviada correctamente")

\* C13: a submit reports the first check that fails, in the order: fields
\* present and numeric, publication exists, publication "disponible",
\* requester is not the owner, no request of the requester for the publication.
\* So an unavailable publication is reported as such to its owner and to a
\* user who already has a request for it, and the duplicate is reported only
\* for an available publication of another user.
C13_OrdenDeSubmit ==
  /\ [](\A userId \in Usuarios, publicacionId \in IdsCuerpo(MaxPub), mensaje \in BOOLEAN :
          LET r == createRequest_validar(userId, publicacionId, mensaje)
              n == parseInt(publicacionId)
              mal == publicacionId = <<>> \/ n.nan \/ ~mensaje
              existe == ~mal /\ n.val \in DOMAIN publicacion
              disponible == existe /\ publicacion[n.val].estado = "disponible"
              ajena == disponible /\ publicacion[n.val].usuarioId # userId
          IN /\ mal => r = ResFaltan
             /\ (~mal /\ ~existe) => r = ResPublicacionNoEncontrada
             /\ (existe /\ ~disponible) => r = ResNoDisponible
             /\ (disponible /\ ~ajena) => r = ResPropia
             /\ ajena => r = NoRes)
  /\ [][\A p \in Procs :
          LET hay == solicitudExistente(local[p].userId, local[p].pubId) # {} IN
          /\ (pc[p] = "createRequest_findSolicitud" /\ res' = ResDuplicada)
             => /\ hay
                /\ publicacion[local[p].pubId].estado = "disponible"
                /\ publicacion[local[p].pubId].usuarioId # local[p].userId
          /\ (pc[p] = "createRequest_findSolicitud" /\ pc'[p] = "createRequest_create")
             => ~hay
          /\ (pc[p] = "createRequest_findSolicitud" /\ hay /\ pc'[p] = "idle"
              /\ res'.status # 500)
             => res' = ResDuplicada
       ]_vars

\* C13 witness: "not available" has just been answered for a publication that
\* is not "disponible" and on which every user but the owner has a request
C13_Testigo ==
  /\ res = ResNoDisponible
  /\ \E P \in DOMAIN publicacion :
       /\ publicacion[P].estado # "disponible"
       /\ \A u \in Usuarios \ {publicacion[P].usuarioId} : solicitudExistente(u, P) # {}

ResIdInvalido == [status |-> 500, message |-> "Error interno del servidor", error |-> ErrorId,
          data |-> NoData]
ResEstadoNoValido == Res(400, "Estado no válido")
ResNoAutorizado == Res(403, "No autorizado para modificar esta solicitud")
ResYaActualizado == Res(200, "El estado ya estaba actualizado. No se envió correo.")
\* the owner of the publication of a request
Dueno(s) == publicacion[solicitud[s].publicacionId].usuarioId

\* C15: a step that answers 400, 403 or 404 leaves the three tables and their
\* id sequences unchanged and sends no mail; a well-formed submit to a
\* publication that is not "disponible" is answered 400 "Esta publicación no
\* está disponible para adopción".
C15_ErroresSinEfecto ==
  /\ [][res'.status \in {400, 403, 404} => (db' = db /\ correo' = NoCorreo)]_vars
  /\ [](\A userId \in Usuarios, P \in DOMAIN publicacion :
          publicacion[P].estado # "disponible"
          => createRequest_validar(userId, TextoDe(P), TRUE) = ResNoDisponible)

\* C15 witness: "not available" has just been answered for a publication made
\* "no disponible" by an approval
C15_Testigo ==
  /\ res = ResNoDisponible
  /\ \E P \in DOMAIN publicacion :
       publicacion[P].estado = "no disponible" /\ Aprobadas(P) # {}

\* C16: a status change reports the first check that fails, in the order: id
\* numeric, state permitted, request exists, caller owns the publication,
\* request not Aprobada. So a state that is not permitted is reported even for
\* a request that does not exist, and a caller who is not the owner gets 403
\* even for a request that is Aprobada.
C16_OrdenDeCambioDeEstado ==
  \A userId \in Usuarios, id \in IdsRuta(MaxSol), nuevoEstado \in EstadosEntrada :
    LET r == actualizarEstadoSolicitud_validar(userId, id, nuevoEstado)
        n == parseInt(id)
        valido == ~n.nan /\ nuevoEstado \in estadosPermitidos
        existe == valido /\ n.val \in DOMAIN solicitud
        propia == existe /\ Dueno(n.val) = userId
    IN /\ n.nan => r \notin {NoRes, ResEstadoNoValido, ResSolicitudNoEncontrada,
                              ResNoAutorizado, ResAprobada, ResYaActualizado}
       /\ (~n.nan /\ ~valido) => r = ResEstadoNoValido
       /\ (valido /\ ~existe) => r = ResSolicitudNoEncontrada
       /\ (existe /\ ~propia) => r = ResNoAutorizado
       /\ (propia /\ solicitud[n.val].estado = "Aprobada") => r = ResAprobada
       /\ (propia /\ solicitud[n.val].estado # "Aprobada") => r \in {NoRes, ResYaActualizado}

\* C16 witness: 403 has just been answered when every request is Aprobada
C16_Testigo ==
  /\ res = ResNoAutorizado
  /\ solicitud # <<>>
  /\ \A s \in DOMAIN solicitud : solicitud[s].estado = "Aprobada"

\* C17: a status change that is answered by its checks alone for an id that is
\* not numeric is answered 400.
C17_IdInvalidoEsValidacion ==
  [][\A p \in Procs, userId \in Usuarios, id \in IdsRuta(MaxSol), nuevoEstado \in EstadosEntrada :
       (/\ parseInt(id).nan
        /\ pc[p] = "idle" /\ pc'[p] = "idle"
        /\ res' = actualizarEstadoSolicitud_validar(userId, id, nuevoEstado))
       => res'.status = 400
  ]_vars

\* C18: the estado of a request is written only by the update of a status
\* change on that request, or by the updateMany of an approval of a sibling,
\* made by a call whose caller owns the publication; a status change by any
\* other user, the requester included, is answered 403 and writes nothing.
C18_SoloElDuenoCambiaEstado ==
  /\ [](\A s \in DOMAIN solicitud, userId \in Usuarios, nuevoEstado \in estadosPermitidos :
          userId # Dueno(s)
          => actualizarEstadoSolicitud_validar(userId, TextoDe(s), nuevoEstado) = ResNoAutorizado)
  /\ [][\A s \in DOMAIN solicitud \cap DOMAIN solicitud' :
          solicitud'[s].estado # solicitud[s].estado
          => \E p \in Procs :
               /\ local[p].userId = Dueno(s)
               /\ \/ pc[p] \in {"aprobar_updateSolicitud", "otros_updateSolicitud"}
                     /\ local[p].id = s
                  \/ pc[p] = "aprobar_updateMany"
                     /\ local[p].id # s
                     /\ local[p].pubId = solicitud[s].publicacionId
       ]_vars
  /\ [][res' = ResNoAutorizado => (db' = db /\ correo' = NoCorreo /\ pc' = pc)]_vars

\* C18 witness: 403 has just been answered when every request is Pendiente
C18_Testigo ==
  /\ res = ResNoAutorizado
  /\ solicitud # <<>>
  /\ \A s \in DOMAIN solicitud : solicitud[s].estado = "Pendiente"

\* C19: a status change by the owner to the state the request already has,
\* Pendiente or Rechazada, is answered 200 "El estado ya estaba actualizado. No
\* se envió correo."; the step that answers so writes nothing, sends no mail
\* and starts nothing, however often it is repeated.
C19_MismoEstadoSinEfecto ==
  /\ [](\A s \in DOMAIN solicitud :
          solicitud[s].estado \in {"Pendiente", "Rechazada"}
          => actualizarEstadoSolicitud_validar(Dueno(s), TextoDe(s), solicitud[s].estado)
               = ResYaActualizado)
  /\ [][res' = ResYaActualizado => (db' = db /\ correo' = NoCorreo /\ pc' = pc)]_vars

\* C19 witness: the 200 without mail has just been answered while the only
\* request is Rechazada
C19_Testigo ==
  /\ res = ResYaActualizado
  /\ correo = NoCorreo
  /\ DOMAIN solicitud # {}
  /\ \A s \in DOMAIN solicitud : solicitud[s].estado = "Rechazada"

\* C20: the update of a status change to Rechazada or Pendiente writes the
\* estado of its request and nothing else, and the step that then answers 200
\* writes nothing: the publication and the other requests are as before.
C20_OtrosEstadosSinCascada ==
  [][\A p \in Procs :
       /\ (pc[p] = "otros_updateSolicitud" /\ pc'[p] = "otros_enviar")
          => /\ local[p].nuevoEstado \in {"Rechazada", "Pendiente"}
             /\ solicitud' = [solicitud EXCEPT ![local[p].id].estado = local[p].nuevoEstado]
             /\ publicacion' = publicacion /\ mascota' = mascota
       /\ (pc[p] = "otros_enviar" /\ res' = Res(200, MensajeActualizada(local[p].nuevoEstado)))
          => /\ db' = db
             /\ solicitud[local[p].id].estado = local[p].nuevoEstado
  ]_vars

\* C20 witness: a rejection of the only request has just answered 200 and the
\* publication is still "disponible"
C20_Testigo ==
  /\ res = Res(200, MensajeActualizada("Rechazada"))
  /\ correo.estado = "Rechazada"
  /\ \E s \in DOMAIN solicitud :
       /\ DOMAIN solicitud = {s}
       /\ solicitud[s].estado = "Rechazada"
       /\ publicacion[solicitud[s].publicacionId].estado = "disponible"

EnEnvio == {"aprobar_enviar", "otros_enviar"}
\* the writes of the status change that handler p is making are in the store
CambioEscrito(p) ==
  /\ local[p].id \in DOMAIN solicitud
  /\ solicitud[local[p].id].estado = local[p].nuevoEstado
  /\ pc[p] = "aprobar_enviar"
     => /\ publicacion[local[p].pubId].estado = "no disponible"
        /\ \A s \in SolicitudesDe(local[p].pubId) \ {local[p].id} :
             solicitud[s].estado # "Pendiente"

\* C21: the owner's status change passes its checks for every permitted state
\* other than the current one when the request is Pendiente or Rechazada, and
\* for none when it is Aprobada; its update then writes the state asked for,
\* through the approval when that state is Aprobada.
C21_RechazadaNoEsTerminal ==
  /\ [](\A s \in DOMAIN solicitud, nuevoEstado \in estadosPermitidos :
          LET r == actualizarEstadoSolicitud_validar(Dueno(s), TextoDe(s), nuevoEstado) IN
          r = NoRes <=> /\ solicitud[s].estado \in {"Pendiente", "Rechazada"}
                        /\ nuevoEstado # solicitud[s].estado)
  /\ [][\A p \in Procs :
          /\ (pc[p] = "idle" /\ pc'[p] \in {"aprobar_updateSolicitud", "otros_updateSolicitud"})
             => (pc'[p] = "aprobar_updateSolicitud" <=> local'[p].nuevoEstado = "Aprobada")
          /\ (pc[p] \in {"aprobar_updateSolicitud", "otros_updateSolicitud"}
              /\ pc'[p] \in {"aprobar_updatePublicacion", "otros_enviar"})
             => /\ solicitud[local[p].id].estado \in {"Pendiente", "Rechazada"}
                /\ solicitud'[local[p].id].estado = local[p].nuevoEstado
                /\ solicitud'[local[p].id].estado # solicitud[local[p].id].estado
       ]_vars

\* C21 witness: an approval has just answered 200 on a publication with two
\* requests Aprobada, the later of which had been Rechazada
C21_Testigo ==
  /\ res = ResCorreoEnviado
  /\ \E s, t \in DOMAIN solicitud :
       /\ s # t
       /\ solicitud[s].publicacionId = solicitud[t].publicacionId
       /\ solicitud[s].estado = "Aprobada" /\ solicitud[t].estado = "Aprobada"

C23_CorreoTrasLasEscrituras ==
  [][/\ correo' # NoCorreo
        => /\ db' = db
           /\ \E p \in Procs : pc[p] \in EnEnvio /\ pc'[p] = "idle" /\ CambioEscrito(p)
     /\ \A p \in Procs :
          pc'[p] # pc[p] =>
            /\ pc'[p] = "aprobar_enviar" => pc[p] = "aprobar_updateMany"
            /\ pc'[p] = "aprobar_updateMany" => pc[p] = "aprobar_updatePublicacion"
            /\ pc'[p] = "aprobar_updatePublicacion" => pc[p] = "aprobar_updateSolicitud"
            /\ pc'[p] = "otros_enviar" => pc[p] = "otros_updateSolicitud"
  ]_vars

\* C23 witness: the mail of a change back to Pendiente has just been sent
C23_Testigo ==
  /\ correo # NoCorreo
  /\ correo.estado = "Pendiente"
  /\ \E s \in DOMAIN solicitud :
       solicitud[s].estado = "Pendiente" /\ solicitud[s].usuarioId = correo.to

\* C24: when the send fails, the step that answers 500 writes nothing: the
\* request keeps the new state and, for an approval, the publication stays
\* "no disponible" and the siblings stay Rechazada.
C24_FalloDeCorreoNoDeshace ==
  [][\A p \in Procs :
       (pc[p] \in EnEnvio /\ pc'[p] = "idle" /\ res'.status = 500)
       => /\ res'.error = ErrorCorreo
          /\ db' = db
          /\ CambioEscrito(p)
  ]_vars

\* C24 witness: the send of an approval has just failed and the approval stands
C24_Testigo ==
  /\ res.status = 500 /\ res.error = ErrorCorreo
  /\ \E a, r \in DOMAIN solicitud :
       /\ solicitud[a].estado = "Aprobada" /\ solicitud[r].estado = "Rechazada"
       /\ solicitud[a].publicacionId = solicitud[r].publicacionId
       /\ publicacion[solicitud[a].publicacionId].estado = "no disponible"

\* the 500s a status change answers when it has written nothing
RespuestasSinCambio ==
  {ResIdInvalido} \cup
  {Catch(donde, ErrorPrisma) : donde \in {"aprobar_updateSolicitud", "otros_updateSolicitud"}}

\* C25: the 500 of a status change that has written its request is never one
\* of the 500s of a status change that has written nothing.
C25_ErrorDiceSiCambio ==
  [][\A p \in Procs :
       (/\ pc[p] \in {"aprobar_updatePublicacion", "aprobar_updateMany"} \cup EnEnvio
        /\ pc'[p] = "idle" /\ res'.status = 500)
       => res' \notin RespuestasSinCambio
  ]_vars

ResEliminada == Res(200, "La publicación se eliminó correctamente")
ResNoPermisoEliminar == Res(403, "No tienes permiso para eliminar esta publicación")
ResCreada == Res(201, "La publicación se creó correctamente")
ResNoCreada == Res(500, "No se pudo crear la publicación, intente nuevamente")
ResEditada == Res(200, "La publicación se editó correctamente")
\* ids of publications that existed and were deleted
PublicacionesBorradas == (1..seqPublicacion) \ DOMAIN publicacion

\* C26: the delete that answers 200 removes its publication, the pets of that
\* publication and the requests of that publication, whatever their state, and
\* leaves every other row as it was; from then on no pet and no request refers
\* to the publication, and every lookup of it or of a deleted request by id is
\* answered 404.
C26_BorradoEnCascada ==
  /\ [][\A p \in Procs :
          (pc[p] = "deletePublication_delete" /\ res' = ResEliminada)
          => LET P == local[p].pubId IN
             /\ P \in DOMAIN publicacion
             /\ DOMAIN publicacion' = DOMAIN publicacion \ {P}
             /\ \A Q \in DOMAIN publicacion' : publicacion'[Q] = publicacion[Q]
             /\ DOMAIN mascota' = {m \in DOMAIN mascota : mascota[m].publicacionId # P}
             /\ \A m \in DOMAIN mascota' : mascota'[m] = mascota[m]
             /\ DOMAIN solicitud' = {s \in DOMAIN solicitud : solicitud[s].publicacionId # P}
             /\ \A s \in DOMAIN solicitud' : solicitud'[s] = solicitud[s]
       ]_vars
  /\ [](\A P \in PublicacionesBorradas, userId \in Usuarios :
          /\ MascotasDe(P) = {} /\ SolicitudesDe(P) = {}
          /\ createRequest_validar(userId, TextoDe(P), TRUE) = ResPublicacionNoEncontrada
          /\ updatePublication_validar(userId, TextoDe(P), "-", "-", "Perro")
               = ResPublicacionNoEncontrada
          /\ deletePublication_validar(userId, TextoDe(P)) = ResPublicacionNoEncontrada)
  /\ [](\A s \in Borradas, userId \in Usuarios :
          /\ deleteRequest_validar(userId, TextoDe(s)) = ResSolicitudNoEncontrada
          /\ actualizarEstadoSolicitud_validar(userId, TextoDe(s), "Rechazada")
               = ResSolicitudNoEncontrada)

\* C26 witness: a delete has just answered 200, a request went with it, and
\* another publication still has its pet and a request
C26_Testigo ==
  /\ res = ResEliminada
  /\ PublicacionesBorradas # {}
  /\ Borradas # {}
  /\ \E Q \in DOMAIN publicacion : MascotasDe(Q) # {} /\ SolicitudesDe(Q) # {}

\* C27: a delete of an existing publication passes its checks exactly for the
\* owner and is answered 403 for everyone else, with nothing written; a
\* publication is removed only by the delete of a call of its owner; a delete of
\* a publication that was deleted is answered 404.
C27_SoloElDuenoElimina ==
  /\ [](\A P \in DOMAIN publicacion, userId \in Usuarios :
          deletePublication_validar(userId, TextoDe(P))
            = IF userId = publicacion[P].usuarioId THEN NoRes ELSE ResNoPermisoEliminar)
  /\ [](\A P \in PublicacionesBorradas, userId \in Usuarios :
          deletePublication_validar(userId, TextoDe(P)) = ResPublicacionNoEncontrada)
  /\ [][res' = ResNoPermisoEliminar => (db' = db /\ pc' = pc)]_vars
  /\ [][\A P \in DOMAIN publicacion \ DOMAIN publicacion' :
          \E p \in Procs : /\ pc[p] = "deletePublication_delete"
                           /\ local[p].pubId = P
                           /\ local[p].userId = publicacion[P].usuarioId
                           /\ res' = ResEliminada
       ]_vars

\* C27 witness: the 403 of a delete has just been answered and the publication
\* is there
C27_Testigo ==
  /\ res = ResNoPermisoEliminar
  /\ publicacion # <<>>

\* C28: the create that answers 201 adds one publication, "disponible" and
\* owned by a publisher, and one pet of that publication, and nothing else; the
\* create that answers 500 adds nothing; so every publication has a pet, every
\* pet has its publication and as many pets as publications were ever created.
C28_CreacionAtomica ==
  /\ [](/\ seqMascota = seqPublicacion
         /\ \A P \in DOMAIN publicacion : MascotasDe(P) # {}
         /\ \A m \in DOMAIN mascota : mascota[m].publicacionId \in DOMAIN publicacion)
  /\ [][(res' = ResCreada \/ seqPublicacion' # seqPublicacion)
         => LET P == seqPublicacion + 1
                m == seqMascota + 1
            IN /\ res' = ResCreada
               /\ DOMAIN publicacion' = DOMAIN publicacion \cup {P} /\ P \notin DOMAIN publicacion
               /\ publicacion'[P].estado = "disponible"
               /\ publicacion'[P].usuarioId \in Publicadores
               /\ \A Q \in DOMAIN publicacion : publicacion'[Q] = publicacion[Q]
               /\ DOMAIN mascota' = DOMAIN mascota \cup {m} /\ m \notin DOMAIN mascota
               /\ mascota'[m].publicacionId = P
               /\ \A n \in DOMAIN mascota : mascota'[n] = mascota[n]
               /\ solicitud' = solicitud
       ]_vars
  /\ [][res' = ResNoCreada => db' = db]_vars

\* C28 witness: a create has just failed and the store is empty
C28_Testigo ==
  /\ res = ResNoCreada
  /\ publicacion = <<>> /\ mascota = <<>>

\* C29: the edit that answers 200 stores the photo of the body, or keeps the
\* photo when the body has none; stores the estado of the body, or keeps the
\* estado when the body has none, whatever the requests of the publication;
\* and changes no other publication and no request. No step changes the owner
\* of a publication.
C29_EfectoDeEdicion ==
  /\ [][\A p \in Procs :
          (pc[p] = "updatePublication_transaction" /\ res' = ResEditada)
          => LET P == local[p].pubId IN
             /\ DOMAIN publicacion' = DOMAIN publicacion
             /\ publicacion'[P].foto =
                  IF local[p].foto = "-" THEN publicacion[P].foto ELSE local[p].foto
             /\ publicacion'[P].estado =
                  IF local[p].estado = "-" THEN publicacion[P].estado ELSE local[p].estado
             /\ \A Q \in DOMAIN publicacion \ {P} : publicacion'[Q] = publicacion[Q]
             /\ solicitud' = solicitud
       ]_vars
  /\ [][\A P \in DOMAIN publicacion \cap DOMAIN publicacion' :
          publicacion'[P].usuarioId = publicacion[P].usuarioId]_vars

\* C29 witness: an edit has just stored "disponible" on a publication that has
\* a request Aprobada
C29_Testigo ==
  /\ res = ResEditada
  /\ \E P \in DOMAIN publicacion :
       publicacion[P].estado = "disponible" /\ Aprobadas(P) # {}

\* C30: every publication has exactly one pet, also while edits of it are in
\* flight together.
C30_UnaMascotaPorPublicacion ==
  \A P \in DOMAIN publicacion : Cardinality(MascotasDe(P)) = 1

\* C30 witness: an edit has just answered 200 while another edit of the same
\* publication is at its transaction
C30_Testigo ==
  /\ res = ResEditada
  /\ \E p \in Procs :
       /\ pc[p] = "updatePublication_transaction"
       /\ local[p].pubId \in DOMAIN publicacion
       /\ local[p].mascotaId \in MascotasDe(local[p].pubId)

\* C31: the listing of available publications answers with exactly the
\* publications that are "disponible" in the store it read, narrowed to the
\* ones with a pet of the species of the query when the query has one, and
\* writes nothing; so no row of the answer is a publication that was deleted
\* or one that is not "disponible", as after an approval.
C31_DisponiblesExactas ==
  /\ [][res'.data.de = "disponibles" => db' = db]_vars
  /\ [](res.data.de = "disponibles" =>
          /\ \A P \in DOMAIN publicacion :
               ([id |-> P, estado |-> publicacion[P].estado] \in res.data.filas)
                <=> /\ publicacion[P].estado = "disponible"
                    /\ \/ res.data.tipo = "-"
                       \/ \E m \in DOMAIN mascota : /\ mascota[m].publicacionId = P
                                                     /\ mascota[m].tipo = res.data.tipo
          /\ \A f \in res.data.filas :
               /\ f.id \in DOMAIN publicacion
               /\ f.id \notin PublicacionesBorradas
               /\ f.estado = "disponible" /\ publicacion[f.id].estado = "disponible")

\* C31 witness: a listing with a species has just returned one publication
\* while another publication of that species is "no disponible" with a request
\* Aprobada
C31_Testigo ==
  /\ res.data.de = "disponibles"
  /\ res.data.tipo = "Gato"
  /\ Cardinality(res.data.filas) = 1
  /\ \E P \in DOMAIN publicacion :
       /\ publicacion[P].estado = "no disponible" /\ Aprobadas(P) # {}
       /\ \E m \in MascotasDe(P) : mascota[m].tipo = "Gato"

\* C32: the listing of received requests answers with exactly the requests
\* whose publication belongs to the caller, the listing of sent requests with
\* exactly the requests the caller made, and neither writes anything.
C32_RecibidasYEnviadas ==
  /\ [][res'.data.de \in {"recibidas", "enviadas"} => db' = db]_vars
  /\ [](res.data.de = "recibidas" =>
          /\ \A s \in DOMAIN solicitud :
               ([id |-> s, estado |-> solicitud[s].estado] \in res.data.filas)
                <=> publicacion[solicitud[s].publicacionId].usuarioId = res.data.userId
          /\ \A f \in res.data.filas : f.id \in DOMAIN solicitud)
  /\ [](res.data.de = "enviadas" =>
          /\ \A s \in DOMAIN solicitud :
               ([id |-> s, estado |-> solicitud[s].estado] \in res.data.filas)
                <=> solicitud[s].usuarioId = res.data.userId
          /\ \A f \in res.data.filas : f.id \in DOMAIN solicitud)

\* C32 witness: the listing of received requests has just returned one request
\* to an owner who has also sent one, which is on the publication of another
\* owner and is not listed
C32_Testigo ==
  /\ res.data.de = "recibidas"
  /\ Cardinality(res.data.filas) = 1
  /\ \E s \in DOMAIN solicitud :
       /\ solicitud[s].usuarioId = res.data.userId
       /\ publicacion[solicitud[s].publicacionId].usuarioId # res.data.userId

ResNoPermisoCancelar == Res(403, "No tienes permiso para cancelar esta solicitud")

\* C33: a cancel of an existing request by anyone but its requester is answered
\* 403, whatever the state of the request, Aprobada and Rechazada included, and
\* writes nothing.
C33_CancelarAjenaEsProhibido ==
  /\ [](\A s \in DOMAIN solicitud, userId \in Usuarios :
          userId # solicitud[s].usuarioId
            => deleteRequest_validar(userId, TextoDe(s)) = ResNoPermisoCancelar)
  /\ [][res' = ResNoPermisoCancelar => (db' = db /\ pc' = pc)]_vars

\* C33 witness: the 403 of a cancel has just been answered and every request
\* of the store is Aprobada
C33_Testigo ==
  /\ res = ResNoPermisoCancelar
  /\ solicitud # <<>>
  /\ \A s \in DOMAIN solicitud : solicitud[s].estado = "Aprobada"

\* C34: the cancel that answers 200 removes its request and nothing else:
\* every publication, every pet and every other request, of the same
\* publication or of another, is as it was.
C34_CancelarSinCascada ==
  [][\A p \in Procs :
       (pc[p] = "deleteRequest_delete" /\ res' = ResCancelada)
       => /\ local[p].id \in DOMAIN solicitud
          /\ DOMAIN solicitud' = DOMAIN solicitud \ {local[p].id}
          /\ \A s \in DOMAIN solicitud' : solicitud'[s] = solicitud[s]
          /\ publicacion' = publicacion
          /\ mascota' = mascota
    ]_vars

\* C34 witness: a cancel has just answered 200 while the store holds two
\* publications and another request
C34_Testigo ==
  /\ res = ResCancelada
  /\ Borradas # {}
  /\ Cardinality(DOMAIN publicacion) = 2
  /\ solicitud # <<>>

\* the texts that are a positive integer: digits only, not all of them zero
EsEnteroPositivo(s) ==
  /\ s # <<>>
  /\ \A i \in 1..Len(s) : EsDigito(s[i])
  /\ \E i \in 1..Len(s) : s[i] # "0"

\* C35: a submit whose publicacionId is not the text of a positive integer is
\* answered 400 "Faltan datos obligatorios" by the checks that come before the
\* lookup of the publication, and goes no further.
C35_IdMalFormadoEsValidacion ==
  \A userId \in Usuarios, publicacionId \in IdsCuerpo(MaxPub) :
    ~EsEnteroPositivo(publicacionId)
      => createRequest_validar(userId, publicacionId, TRUE) = ResFaltan

\* C36: the estado of every publication is "disponible" or "no disponible".
C36_DosEstados ==
  \A P \in DOMAIN publicacion : publicacion[P].estado \in {"disponible", "no disponible"}

\* C37: between calls, no publication has two requests Aprobada.
C37_UnaAprobadaEnSecuencia ==
  Reposo => \A P \in DOMAIN publicacion : Cardinality(Aprobadas(P)) <= 1

\* C38: between calls, a publication with a request Aprobada has no request
\* Pendiente.
C38_AprobadaSinPendientes ==
  Reposo =>
    \A P \in DOMAIN publicacion :
      Aprobadas(P) # {} => \A s \in SolicitudesDe(P) : solicitud[s].estado # "Pendiente"

\* C39: the submit that answers 201 adds one request Pendiente, which its
\* requester may cancel at once, and changes nothing else; the cancel that
\* answers 200 takes its request out and changes nothing else, so that a cancel
\* right after the submit leaves the requests and the publications as they were
\* before the submit; and after the cancel the requester has no request on the
\* publication, the insert of a new one is not refused, and the checks of a
\* submit answer what they answered before the cancel.
C39_EnviarYCancelar ==
  /\ [][\A p \in Procs :
          (pc[p] = "createRequest_create" /\ res' = ResEnviada)
          => LET n == seqSolicitud + 1 IN
             /\ n \notin DOMAIN solicitud
             /\ DOMAIN solicitud' = DOMAIN solicitud \cup {n}
             /\ \A s \in DOMAIN solicitud : solicitud'[s] = solicitud[s]
             /\ solicitud'[n] = [estado |-> "Pendiente", usuarioId |-> local[p].userId,
                                 publicacionId |-> local[p].pubId]
             /\ publicacion' = publicacion
             /\ \A u \in Usuarios, t \in 1..MaxSol :
                  (u = local[p].userId /\ t = n)
                    => deleteRequest_validar(u, TextoDe(t))' = NoRes
       ]_vars
  /\ [][\A p \in Procs :
          (pc[p] = "deleteRequest_delete" /\ res' = ResCancelada)
          => LET s == local[p].id
                 u == solicitud[s].usuarioId
                 P == solicitud[s].publicacionId
             IN /\ u = local[p].userId
                /\ DOMAIN solicitud' = DOMAIN solicitud \ {s}
                /\ \A t \in DOMAIN solicitud' : solicitud'[t] = solicitud[t]
                /\ publicacion' = publicacion
                /\ \A v \in Usuarios, Q \in DOMAIN publicacion :
                     (v = u /\ Q = P)
                       => /\ solicitudExistente(v, Q)' = {}
                          /\ ~createRequest_rechazaInsert(v, Q)'
                          /\ createRequest_validar(v, TextoDe(Q), TRUE)'
                               = createRequest_validar(v, TextoDe(Q), TRUE)
       ]_vars

\* C39 witness: a submit has just answered 201 for the second request ever
\* made, the first one was cancelled, and the publication is as it was created
C39_Testigo ==
  /\ res = ResEnviada
  /\ DOMAIN solicitud = {2}
  /\ Borradas = {1}
  /\ publicacion # <<>>
  /\ \A P \in DOMAIN publicacion : publicacion[P].estado = "disponible"

====
